---------------------------- MODULE Spec2Model ----------------------------
(***************************************************************************)
(* Announcements router of the High School Management System API          *)
(* (src/backend/routers/announcements.py).                                *)
(*                                                                         *)
(* Texts are sequences of one-character strings, compared as MongoDB and  *)
(* Python compare strings (code point by code point).  A timestamp is     *)
(* scaled down to one digit (the instant), optionally followed by the UTC *)
(* designator "Z" or the offset sign "+"; an ObjectId string is scaled    *)
(* down to one hexadecimal digit.  An Optional[...] value is a sequence   *)
(* of length 0 (None) or 1.                                               *)
(***************************************************************************)
EXTENDS Integers, Sequences, FiniteSets, Bags

\* Bounds of the model.
MaxTime == 1
MaxAnnouncements == 1
MaxRequests == 2

VARIABLES
    now,        \* the instant datetime.now() returns
    store,      \* announcements_collection: ObjectId -> document
    nextId,     \* the next ObjectId insert_one assigns
    inflight,   \* the bag of update requests between their existence check
                \* and their answer (pc, the ObjectId, update_doc)
    served,     \* the number of requests accepted so far
    resp        \* the response the step just taken sent (NoResp: none)

vars == <<now, store, nextId, inflight, served, resp>>

-----------------------------------------------------------------------------
\* Optional values.
None == << >>
Some(v) == <<v>>
IsNone(o) == Len(o) = 0
Val(o) == o[1]

\* Code points of the characters used.
Ord(c) ==
    CASE c = "+" -> 43
      [] c = "0" -> 48
      [] c = "1" -> 49
      [] c = "2" -> 50
      [] c = "3" -> 51
      [] c = "4" -> 52
      [] c = "5" -> 53
      [] c = "6" -> 54
      [] c = "7" -> 55
      [] c = "8" -> 56
      [] c = "9" -> 57
      [] c = "Z" -> 90
      [] c = "x" -> 120
      [] c = "z" -> 122

Digits == <<"0", "1", "2", "3", "4", "5", "6", "7", "8", "9">>
DigitChars == {Digits[i] : i \in 1..Len(Digits)}
Digit(n) == Digits[n + 1]
DigitVal(c) == (CHOOSE i \in 1..Len(Digits) : Digits[i] = c) - 1

\* a < b on strings: the first differing character decides, a proper prefix
\* is smaller.
StrLess(a, b) ==
    \E k \in 0..Len(a) :
        /\ k <= Len(b)
        /\ \A i \in 1..k : a[i] = b[i]
        /\ \/ (k = Len(a) /\ k < Len(b))
           \/ (k < Len(a) /\ k < Len(b) /\ Ord(a[k + 1]) < Ord(b[k + 1]))
StrLeq(a, b) == a = b \/ StrLess(a, b)

\* datetime.isoformat() of a naive datetime.
isoformat(t) == <<Digit(t)>>

\* s.replace("Z", "+00:00")
ReplaceZ(s) == [i \in 1..Len(s) |-> IF s[i] = "Z" THEN "+" ELSE s[i]]

\* datetime.fromisoformat(s): a naive datetime, an aware one (an offset is
\* given), or ValueError.
fromisoformat(s) ==
    IF Len(s) = 1 /\ s[1] \in DigitChars
    THEN [ok |-> TRUE, aware |-> FALSE, t |-> DigitVal(s[1])]
    ELSE IF Len(s) = 2 /\ s[1] \in DigitChars /\ s[2] = "+"
    THEN [ok |-> TRUE, aware |-> TRUE, t |-> DigitVal(s[1])]
    ELSE [ok |-> FALSE, aware |-> FALSE, t |-> 0]

ParseDate(s) == fromisoformat(ReplaceZ(s))

\* str(ObjectId) and ObjectId(str): -1 stands for the exception.
IdStr(n) == <<Digit(n)>>
ObjectId(s) == IF Len(s) = 1 /\ s[1] \in DigitChars THEN DigitVal(s[1]) ELSE -1

-----------------------------------------------------------------------------
\* Inputs.
Teachers == {"teacher"}
Usernames == {None, Some(""), Some("teacher"), Some("ghost")}
CreateMessages == {"m0"}
UpdateMessages == {"m1"}
\* start_date of an update is stored as sent, never parsed: the latest instant
\* and a text that is no timestamp.
StartUpdates == {isoformat(MaxTime), <<"x">>}
DateInputs ==
    {isoformat(t) : t \in 0..MaxTime}
        \cup {isoformat(MaxTime) \o <<"Z">>, <<"x">>, << >>}
IdInputs == {IdStr(n) : n \in 1..MaxAnnouncements} \cup {<<"z">>}
Optional(S) == {None} \cup {Some(v) : v \in S}

NoResp == [op |-> "none", status |-> 0, detail |-> "", body |-> << >>]
Response(op, status, detail, body) ==
    [op |-> op, status |-> status, detail |-> detail, body |-> body]

\* An update request that has passed its checks and is about to write.
Request(oid, update_doc) ==
    [pc |-> "write", oid |-> oid, doc |-> update_doc, raced |-> FALSE]

-----------------------------------------------------------------------------
\* Documents and the store.
Doc(message, start_date, expiration_date, created_by, created_at) ==
    [message |-> message, start_date |-> start_date,
     expiration_date |-> expiration_date, created_by |-> created_by,
     created_at |-> created_at]

\* announcement["id"] = str(announcement.pop("_id"))
WithId(oid, doc) ==
    [id |-> IdStr(oid), message |-> doc.message, start_date |-> doc.start_date,
     expiration_date |-> doc.expiration_date, created_by |-> doc.created_by,
     created_at |-> doc.created_at]

\* find_one({"_id": oid})
find_one(oid) == IF oid \in DOMAIN store THEN Some(store[oid]) ELSE None

\* cursor.sort("created_at", -1): every order of the matched documents that is
\* descending in created_at (equal keys come in any order).
SortDescending(oids) ==
    {s \in [1..Cardinality(oids) -> oids] :
        /\ \A i, j \in 1..Cardinality(oids) : i # j => s[i] # s[j]
        /\ \A i, j \in 1..Cardinality(oids) :
              i < j => StrLeq(store[s[j]].created_at, store[s[i]].created_at)}

\* Mutant of MatchesActiveQuery: "$gt" in place of "$gte".
MatchesActiveQuery_Gt(doc, current_time) == StrLess(current_time, doc.expiration_date)

\* The query {"expiration_date": {"$gte": current_time}}.
MatchesActiveQuery(doc, current_time) == StrLeq(current_time, doc.expiration_date)

\* start_date is None or start_date <= current_time
StartReached(doc, current_time) ==
    IsNone(doc.start_date) \/ StrLeq(Val(doc.start_date), current_time)

ActiveIds(current_time) ==
    {oid \in DOMAIN store :
        /\ MatchesActiveQuery(store[oid], current_time)
        /\ StartReached(store[oid], current_time)}

\* Outcome of a check: status 0 is "passed".
Pass == [status |-> 0, detail |-> ""]
Fail(status, detail) == [status |-> status, detail |-> detail]

\* teacher_username: str = Query(...): the parameter is required, and a
\* request without it never reaches the handler.
RequiredQuery(teacher_username) ==
    IF IsNone(teacher_username) THEN Fail(422, "Field required") ELSE Pass

\* "Check teacher authentication"
Authenticate(teacher_username) ==
    IF IsNone(teacher_username) \/ Val(teacher_username) = ""
    THEN Fail(401, "Authentication required for this action")
    ELSE IF Val(teacher_username) \notin Teachers
    THEN Fail(401, "Invalid teacher credentials")
    ELSE Pass

\* expiration < datetime.now(), both naive
IsPast(expiration) == expiration.t < now

\* Mutant of NotBefore: start > expiration, which lets start = expiration pass.
NotBefore_Strict(start, expiration) == start.t > expiration.t

\* start >= expiration, both naive
NotBefore(start, expiration) == start.t >= expiration.t

\* The try block of create_announcement.  Comparing an aware datetime with a
\* naive one raises TypeError, which "except ValueError" does not catch.
CreateValidate(start_date, expiration_date) ==
    LET expiration == ParseDate(expiration_date)
        start == ParseDate(Val(start_date))
    IN  IF ~expiration.ok
        THEN Fail(400, "Invalid date format. Use ISO format (YYYY-MM-DDTHH:MM:SS)")
        ELSE IF expiration.aware
        THEN Fail(500, "Internal Server Error")
        ELSE IF IsPast(expiration)
        THEN Fail(400, "Expiration date must be in the future")
        ELSE IF IsNone(start_date) \/ Val(start_date) = << >>
        THEN Pass
        ELSE IF ~start.ok
        THEN Fail(400, "Invalid date format. Use ISO format (YYYY-MM-DDTHH:MM:SS)")
        ELSE IF start.aware
        THEN Fail(500, "Internal Server Error")
        ELSE IF NotBefore(start, expiration)
        THEN Fail(400, "Start date must be before expiration date")
        ELSE Pass

CreateOutcome(teacher_username, start_date, expiration_date) ==
    IF RequiredQuery(teacher_username).status # 0
    THEN RequiredQuery(teacher_username)
    ELSE IF Authenticate(teacher_username).status # 0
    THEN Authenticate(teacher_username)
    ELSE CreateValidate(start_date, expiration_date)

\* What the collection holds when the service starts: nothing, or one
\* announcement an earlier run created.
Persisted ==
    {<< >>, <<Doc("m0", None, isoformat(MaxTime), "teacher", isoformat(0))>>}

Init ==
    /\ now = 0
    /\ store \in Persisted
    /\ nextId = Len(store) + 1
    /\ inflight = EmptyBag
    /\ served = 0
    /\ resp = NoResp

\* A request is accepted: the model serves at most MaxRequests of them.
Accept ==
    /\ served < MaxRequests
    /\ served' = served + 1

\* The clock advances.
Tick ==
    /\ now < MaxTime
    /\ now' = now + 1
    /\ resp' = NoResp
    /\ UNCHANGED <<store, nextId, inflight, served>>

\* GET /announcements/active
get_active_announcements ==
    /\ Accept
    /\ \E s \in SortDescending(ActiveIds(isoformat(now))) :
          resp' = Response("list_active", 200, "",
                           [i \in DOMAIN s |-> WithId(s[i], store[s[i]])])
    /\ UNCHANGED <<now, store, nextId, inflight>>

\* GET /announcements (teacher_username: Optional[str] = Query(None))
get_all_announcements(teacher_username) ==
    /\ Accept
    /\ IF Authenticate(teacher_username).status # 0
       THEN resp' = Response("list_all", Authenticate(teacher_username).status,
                             Authenticate(teacher_username).detail, << >>)
       ELSE \E s \in SortDescending(DOMAIN store) :
               resp' = Response("list_all", 200, "",
                                [i \in DOMAIN s |-> WithId(s[i], store[s[i]])])
    /\ UNCHANGED <<now, store, nextId, inflight>>

\* insert_one(announcement_doc)
insert_one(doc) == [o \in DOMAIN store \cup {nextId} |->
                       IF o = nextId THEN doc ELSE store[o]]

\* POST /announcements
create_announcement(teacher_username, message, start_date, expiration_date) ==
    LET outcome == CreateOutcome(teacher_username, start_date, expiration_date)
        announcement_doc == Doc(message, start_date, expiration_date,
                                Val(teacher_username), isoformat(now))
    IN  /\ Accept
        /\ IF outcome.status # 0
           THEN /\ resp' = Response("create", outcome.status, outcome.detail, << >>)
                /\ UNCHANGED <<now, store, nextId, inflight>>
           ELSE /\ nextId <= MaxAnnouncements
                /\ store' = insert_one(announcement_doc)
                /\ nextId' = nextId + 1
                /\ resp' = Response("create", 200, "",
                                    <<WithId(nextId, announcement_doc)>>)
                /\ UNCHANGED <<now, inflight>>

\* delete_one({"_id": oid})
delete_one(oid) == [o \in DOMAIN store \ {oid} |-> store[o]]

DeleteOutcome(teacher_username, announcement_id) ==
    IF RequiredQuery(teacher_username).status # 0
    THEN RequiredQuery(teacher_username)
    ELSE IF Authenticate(teacher_username).status # 0
    THEN Authenticate(teacher_username)
    ELSE IF ObjectId(announcement_id) = -1
    THEN Fail(400, "Invalid announcement ID")
    ELSE IF ObjectId(announcement_id) \notin DOMAIN store
    THEN Fail(404, "Announcement not found")
    ELSE Pass

\* DELETE /announcements/{announcement_id}
delete_announcement(teacher_username, announcement_id) ==
    LET outcome == DeleteOutcome(teacher_username, announcement_id)
    IN  /\ Accept
        /\ IF outcome.status # 0
           THEN /\ resp' = Response("delete", outcome.status, outcome.detail, << >>)
                /\ UNCHANGED <<now, store, nextId, inflight>>
           ELSE /\ store' = delete_one(ObjectId(announcement_id))
                /\ resp' = Response("delete", 200,
                                    "Announcement deleted successfully", << >>)
                /\ UNCHANGED <<now, nextId, inflight>>

\* An AnnouncementUpdate body, and the update document built from it: a field
\* that is None is not a key of update_doc.
Payload(message, start_date, expiration_date) ==
    [message |-> message, start_date |-> start_date,
     expiration_date |-> expiration_date]

BuildUpdateDoc(announcement) ==
    [message |-> announcement.message, start_date |-> announcement.start_date,
     expiration_date |-> announcement.expiration_date]

IsEmptyDoc(update_doc) ==
    /\ IsNone(update_doc.message)
    /\ IsNone(update_doc.start_date)
    /\ IsNone(update_doc.expiration_date)

\* The validation of update_announcement after the existence check.
UpdateValidate(announcement) ==
    LET expiration == ParseDate(Val(announcement.expiration_date))
    IN  IF ~IsNone(announcement.expiration_date) /\ ~expiration.ok
        THEN Fail(400, "Invalid date format. Use ISO format (YYYY-MM-DDTHH:MM:SS)")
        ELSE IF ~IsNone(announcement.expiration_date) /\ expiration.aware
        THEN Fail(500, "Internal Server Error")
        ELSE IF ~IsNone(announcement.expiration_date) /\ IsPast(expiration)
        THEN Fail(400, "Expiration date must be in the future")
        ELSE IF IsEmptyDoc(BuildUpdateDoc(announcement))
        THEN Fail(400, "No fields to update")
        ELSE Pass

\* Mutant of UpdateOutcome: the body is validated before the existence check.
UpdateOutcome_ValidateFirst(teacher_username, announcement_id, announcement) ==
    IF RequiredQuery(teacher_username).status # 0
    THEN RequiredQuery(teacher_username)
    ELSE IF Authenticate(teacher_username).status # 0
    THEN Authenticate(teacher_username)
    ELSE IF ObjectId(announcement_id) = -1
    THEN Fail(400, "Invalid announcement ID")
    ELSE IF UpdateValidate(announcement).status # 0
    THEN UpdateValidate(announcement)
    ELSE IF IsNone(find_one(ObjectId(announcement_id)))
    THEN Fail(404, "Announcement not found")
    ELSE Pass

UpdateOutcome(teacher_username, announcement_id, announcement) ==
    IF RequiredQuery(teacher_username).status # 0
    THEN RequiredQuery(teacher_username)
    ELSE IF Authenticate(teacher_username).status # 0
    THEN Authenticate(teacher_username)
    ELSE IF ObjectId(announcement_id) = -1
    THEN Fail(400, "Invalid announcement ID")
    ELSE IF IsNone(find_one(ObjectId(announcement_id)))
    THEN Fail(404, "Announcement not found")
    ELSE UpdateValidate(announcement)

\* PUT /announcements/{announcement_id}, up to the store write: the handler
\* authenticates, looks the announcement up and validates the body.
update_begin(teacher_username, announcement_id, announcement) ==
    LET outcome == UpdateOutcome(teacher_username, announcement_id, announcement)
    IN  /\ Accept
        /\ IF outcome.status # 0
           THEN /\ resp' = Response("update", outcome.status, outcome.detail, << >>)
                /\ UNCHANGED inflight
           ELSE /\ inflight' = inflight (+)
                        SetToBag({Request(ObjectId(announcement_id),
                                          BuildUpdateDoc(announcement))})
                /\ resp' = NoResp
        /\ UNCHANGED <<now, store, nextId>>

\* Mutant of ApplySet: start_date is written even when the request left it out.
ApplySet_Replace(doc, update_doc) ==
    [doc EXCEPT
        !.message = IF IsNone(update_doc.message) THEN @
                    ELSE Val(update_doc.message),
        !.start_date = update_doc.start_date,
        !.expiration_date = IF IsNone(update_doc.expiration_date) THEN @
                            ELSE Val(update_doc.expiration_date)]

\* Mutant of ApplySet: the message is left out of the write.
ApplySet_DropsMessage(doc, update_doc) ==
    [doc EXCEPT
        !.start_date = IF IsNone(update_doc.start_date) THEN @
                       ELSE update_doc.start_date,
        !.expiration_date = IF IsNone(update_doc.expiration_date) THEN @
                            ELSE Val(update_doc.expiration_date)]

\* {"$set": update_doc} on one document.
ApplySet(doc, update_doc) ==
    [doc EXCEPT
        !.message = IF IsNone(update_doc.message) THEN @
                    ELSE Val(update_doc.message),
        !.start_date = IF IsNone(update_doc.start_date) THEN @
                       ELSE update_doc.start_date,
        !.expiration_date = IF IsNone(update_doc.expiration_date) THEN @
                            ELSE Val(update_doc.expiration_date)]

\* update_one({"_id": oid}, {"$set": update_doc})
update_one(oid, update_doc) ==
    [o \in DOMAIN store |->
        IF o = oid THEN ApplySet(store[o], update_doc) ELSE store[o]]

\* Mutant of matched_count: the result of update_one is not looked at.
matched_count_Ignored(oid) == 1

\* matched_count of that update_one
matched_count(oid) == IF oid \in DOMAIN store THEN 1 ELSE 0

\* The update requests in flight.
InFlight == BagToSet(inflight)

\* raced is a history flag: a request that has written and not yet read back
\* learns that another update wrote the same announcement in between.
Overwritten(r, oid) ==
    IF r.pc = "read" /\ r.oid = oid THEN [r EXCEPT !.raced = TRUE] ELSE r

\* The store write of update_announcement, by the request r in flight.
update_write(r) ==
    /\ r \in InFlight
    /\ r.pc = "write"
    /\ IF matched_count(r.oid) = 0
       THEN /\ resp' = Response("update", 500,
                                "Failed to update announcement", << >>)
            /\ inflight' = inflight (-) SetToBag({r})
            /\ UNCHANGED store
       ELSE /\ store' = update_one(r.oid, r.doc)
            /\ inflight' =
                  BagOfAll(LAMBDA q : Overwritten(q, r.oid),
                           inflight (-) SetToBag({r}))
                     (+) SetToBag({[r EXCEPT !.pc = "read"]})
            /\ resp' = NoResp
    /\ UNCHANGED <<now, nextId, served>>

\* The read-back of update_announcement, by the request r in flight:
\* updated.pop("_id") on None raises AttributeError.
update_read(r) ==
    LET updated == find_one(r.oid)
    IN  /\ r \in InFlight
        /\ r.pc = "read"
        /\ resp' = IF IsNone(updated)
                   THEN Response("update", 500, "Internal Server Error", << >>)
                   ELSE Response("update", 200, "", <<WithId(r.oid, Val(updated))>>)
        /\ inflight' = inflight (-) SetToBag({r})
        /\ UNCHANGED <<now, store, nextId, served>>

Payloads ==
    {Payload(m, s, e) : m \in Optional(UpdateMessages), s \in Optional(StartUpdates),
                        e \in Optional(DateInputs)}

\* A request rejected at authentication is answered before its path and body
\* are read: one request stands for all of them.
Rejected(u) == RequiredQuery(u).status # 0 \/ Authenticate(u).status # 0
IdsRead(u) == IF Rejected(u) THEN {<<"z">>} ELSE IdInputs
PayloadsRead(u) == IF Rejected(u) THEN {Payload(None, None, None)} ELSE Payloads
StartsRead(u) == IF Rejected(u) THEN {None} ELSE Optional(DateInputs)
ExpirationsRead(u) == IF Rejected(u) THEN {<< >>} ELSE DateInputs

\* The requests a client can send, each with every input of the bounded sets.
ListActiveRequest == served < MaxRequests /\ get_active_announcements

ListAllRequest ==
    served < MaxRequests /\ \E u \in Usernames : get_all_announcements(u)

CreateRequest ==
    /\ served < MaxRequests
    /\ \E u \in Usernames :
          \E m \in CreateMessages, s \in StartsRead(u), e \in ExpirationsRead(u) :
             create_announcement(u, m, s, e)

UpdateRequest ==
    /\ served < MaxRequests
    /\ \E u \in Usernames :
          \E id \in IdsRead(u), a \in PayloadsRead(u) : update_begin(u, id, a)

DeleteRequest ==
    /\ served < MaxRequests
    /\ \E u \in Usernames : \E id \in IdsRead(u) : delete_announcement(u, id)

\* A request in flight takes its next store step.
WriteStep == \E r \in InFlight : update_write(r)

ReadBackStep == \E r \in InFlight : update_read(r)

Next ==
    \/ Tick
    \/ ListActiveRequest
    \/ ListAllRequest
    \/ CreateRequest
    \/ UpdateRequest
    \/ DeleteRequest
    \/ WriteStep
    \/ ReadBackStep

Spec == Init /\ [][Next]_vars
-----------------------------------------------------------------------------
\* Vocabulary of the properties.
TeacherUsers == {u \in Usernames : ~IsNone(u) /\ Val(u) \in Teachers}
Unauthorized(u) == u \notin TeacherUsers

HasStartDate(doc) == ~IsNone(doc.start_date) /\ Val(doc.start_date) # << >>

\* start_date < expiration_date as instants.
StartsBeforeExpiration(doc) ==
    LET start == ParseDate(Val(doc.start_date))
        expiration == ParseDate(doc.expiration_date)
    IN  /\ start.ok /\ expiration.ok
        /\ start.aware = expiration.aware
        /\ start.t < expiration.t

Supplies(update_doc, field) ==
    CASE field = "message" -> ~IsNone(update_doc.message)
      [] field = "start_date" -> ~IsNone(update_doc.start_date)
      [] field = "expiration_date" -> ~IsNone(update_doc.expiration_date)

\* The request r in flight performs its store write in this step.
Writes(r) == update_write(r) /\ resp' = NoResp

\* The request r in flight is answered after its read-back in this step.
ReadsBack(r) == update_read(r)

\* The request r enters the bag in this step: it has passed its checks.
Begins(r) == r.pc = "write" /\ CopiesIn(r, inflight') > CopiesIn(r, inflight)

BodyIds(r) == {ObjectId(r.body[i].id) : i \in DOMAIN r.body}

\* C1 (as claimed): in every reachable state every stored announcement that
\* has a start_date satisfies start_date < expiration_date.
C1_StartBeforeExpirationAlways ==
    \A oid \in DOMAIN store :
        HasStartDate(store[oid]) => StartsBeforeExpiration(store[oid])

\* C1 (amended): an announcement with a start_date that is not before its
\* expiration_date is never stored by create; it arises only from the write
\* of an update that supplies start_date or expiration_date, and then stays.
C1_OrderBrokenOnlyByUpdate ==
    [][\A oid \in DOMAIN store' :
          (HasStartDate(store'[oid]) /\ ~StartsBeforeExpiration(store'[oid]))
          => \/ /\ oid \in DOMAIN store
                /\ HasStartDate(store[oid])
                /\ ~StartsBeforeExpiration(store[oid])
             \/ \E r \in InFlight :
                   /\ Writes(r)
                   /\ r.oid = oid
                   /\ \/ Supplies(r.doc, "start_date")
                      \/ Supplies(r.doc, "expiration_date")]_vars

\* C1 witness: create has just stored an announcement with a start_date.
C1_Witness ==
    /\ resp.op = "create" /\ resp.status = 200
    /\ \E oid \in DOMAIN store :
          /\ resp.body[1].id = IdStr(oid)
          /\ HasStartDate(store[oid])
          /\ StartsBeforeExpiration(store[oid])

\* C2: list-active returns exactly the stored announcements with
\* expiration_date >= now and (start_date absent or start_date <= now), the
\* comparisons being those of the timestamp strings, and leaves the store
\* as it is.
C2_ListActiveExact ==
    [][resp'.op = "list_active" =>
          /\ store' = store
          /\ resp'.status = 200
          /\ {resp'.body[i] : i \in DOMAIN resp'.body} =
                {WithId(oid, store[oid]) :
                    oid \in {o \in DOMAIN store :
                        /\ StrLeq(isoformat(now), store[o].expiration_date)
                        /\ \/ IsNone(store[o].start_date)
                           \/ StrLeq(Val(store[o].start_date), isoformat(now))}}
          /\ \A i, j \in DOMAIN resp'.body :
                i # j => resp'.body[i].id # resp'.body[j].id]_vars

\* C2 witness: list-active has answered and left out an announcement that is
\* stored.
C2_Witness ==
    /\ resp.op = "list_active"
    /\ \E oid \in DOMAIN store : oid \notin BodyIds(resp)

\* C3 (as claimed): list-all, create, update and delete answer 401 to every
\* request whose requester is missing, empty or unknown to the directory.
C3_UnauthorizedAlways401 ==
    [][\A u \in Usernames :
          Unauthorized(u) =>
             /\ get_all_announcements(u) => resp'.status = 401
             /\ \A m \in CreateMessages, s \in Optional(DateInputs),
                   e \in DateInputs :
                   create_announcement(u, m, s, e) => resp'.status = 401
             /\ \A id \in IdInputs :
                   delete_announcement(u, id) => resp'.status = 401
             /\ \A id \in IdInputs, a \in Payloads :
                   update_begin(u, id, a) => resp'.status = 401]_vars

\* C4 (as claimed): a create, or an update supplying expiration_date, passes
\* only if the expiration_date is strictly later than the current instant.
C4_ExpirationStrictlyFuture ==
    [][/\ (resp'.op = "create" /\ resp'.status = 200)
             => ParseDate(resp'.body[1].expiration_date).t > now
       /\ \A r \in BagToSet(inflight') :
             (Begins(r) /\ Supplies(r.doc, "expiration_date"))
             => ParseDate(Val(r.doc.expiration_date)).t > now]_vars

\* C5 (as claimed): an authenticated create whose start_date is not before
\* its expiration_date answers 400 and inserts nothing; one whose
\* expiration_date is in the future and whose start_date is absent or earlier
\* succeeds and inserts exactly one announcement.
C5_CreateOutcomes ==
    [][\A u \in TeacherUsers, m \in CreateMessages, s \in Optional(DateInputs),
          e \in DateInputs :
          create_announcement(u, m, s, e) =>
             /\ (/\ ~IsNone(s) /\ ParseDate(Val(s)).ok /\ ParseDate(e).ok
                 /\ ParseDate(Val(s)).t >= ParseDate(e).t)
                => (resp'.status = 400 /\ store' = store)
             /\ (/\ ParseDate(e).ok /\ ParseDate(e).t > now
                 /\ \/ IsNone(s)
                    \/ (ParseDate(Val(s)).ok /\ ParseDate(Val(s)).t < ParseDate(e).t))
                => /\ resp'.status = 200
                   /\ Cardinality(DOMAIN store') = Cardinality(DOMAIN store) + 1]_vars

\* C6 (as claimed): a request that ends in failure has performed no store
\* write: the failing step writes nothing, and a request that has written
\* does not end in failure.
C6_FailureWritesNothing ==
    [][/\ resp'.status >= 400 => store' = store
       /\ \A r \in InFlight : ReadsBack(r) => resp'.status = 200]_vars

C8_IdOutcomes ==
    served < MaxRequests =>
    \A u \in TeacherUsers, id \in IdInputs :
        LET malformed == id = <<"z">>
            stored == \E oid \in DOMAIN store : id = IdStr(oid)
        IN  /\ malformed =>
                DeleteOutcome(u, id) = Fail(400, "Invalid announcement ID")
            /\ (~malformed /\ ~stored) =>
                DeleteOutcome(u, id) = Fail(404, "Announcement not found")
            /\ \A a \in Payloads :
                  LET outcome == UpdateOutcome(u, id, a)
                  IN  /\ malformed =>
                            outcome = Fail(400, "Invalid announcement ID")
                      /\ (~malformed /\ ~stored) =>
                            outcome = Fail(404, "Announcement not found")
                      /\ outcome.detail = "No fields to update" =>
                            /\ outcome.status = 400
                            /\ stored
                            /\ a = Payload(None, None, None)

\* C8 witness: an update has been answered 404 for the id of an announcement
\* that was deleted.
C8_Witness ==
    /\ resp.op = "update" /\ resp.status = 404
    /\ resp.detail = "Announcement not found"
    /\ \E oid \in 1..(nextId - 1) : oid \notin DOMAIN store

C10_ReturnsOwnUpdate ==
    [][\A r \in InFlight :
          (ReadsBack(r) /\ resp'.status = 200) =>
             LET update_doc == r.doc
                 returned == resp'.body[1]
             IN  /\ returned.id = IdStr(r.oid)
                 /\ Supplies(update_doc, "message")
                       => returned.message = Val(update_doc.message)
                 /\ Supplies(update_doc, "start_date")
                       => returned.start_date = update_doc.start_date
                 /\ Supplies(update_doc, "expiration_date")
                       => returned.expiration_date = Val(update_doc.expiration_date)]_vars

\* C10 (amended): whenever update returns success, it returns the announcement
\* stored under the requested id at the read-back, and every field the
\* request supplied has the supplied value unless another update wrote that
\* announcement between this request's write and its read-back.
C10_ReturnsStoredEntity ==
    [][\A r \in InFlight :
          (ReadsBack(r) /\ resp'.status = 200) =>
             LET update_doc == r.doc
                 returned == resp'.body[1]
             IN  /\ returned.id = IdStr(r.oid)
                 /\ r.oid \in DOMAIN store
                 /\ returned = WithId(r.oid, store[r.oid])
                 /\ ~r.raced =>
                       /\ Supplies(update_doc, "message")
                             => returned.message = Val(update_doc.message)
                       /\ Supplies(update_doc, "start_date")
                             => returned.start_date = update_doc.start_date
                       /\ Supplies(update_doc, "expiration_date")
                             => returned.expiration_date
                                   = Val(update_doc.expiration_date)]_vars

\* C10 witness: an update has returned success with the stored announcement,
\* whose start_date is the one a second update wrote after the first one's
\* write (the second has written last and has not read back yet).
C10_Witness ==
    /\ resp.op = "update" /\ resp.status = 200
    /\ \E q \in InFlight :
          /\ q.pc = "read"
          /\ ~q.raced
          /\ q.oid = ObjectId(resp.body[1].id)
          /\ q.oid \in DOMAIN store
          /\ resp.body[1] = WithId(q.oid, store[q.oid])
          /\ Supplies(q.doc, "start_date")
          /\ resp.body[1].start_date = q.doc.start_date

=============================================================================
